---- MODULE Spec2Model ----
(***************************************************************************)
(* A model of the Wordfeud API client (package wordfeud): the transport    *)
(* call Client.request, the decode helper roundtrip, the error taxonomy    *)
(* convertToSentinel, the session extraction extractSessionID, the local   *)
(* validation uniqueSquares and the endpoint operations of the Client.     *)
(*                                                                         *)
(* Strings whose characters matter (cookie header values) are sequences of *)
(* tokens: the literal "sessionid=" is one token, every other token is one *)
(* character.  JSON documents are records naming their shape.              *)
(***************************************************************************)
EXTENDS Integers, Sequences, FiniteSets, TLC

VARIABLES
    opts,       \* the options NewClient was given
    client,     \* the Client: [cl, baseURL]
    pc,         \* per goroutine: "idle", "inflight", "returned"
    op,         \* per goroutine: the endpoint operation called
    arg,        \* per goroutine: the call's arguments
    sent,       \* per goroutine: number of c.cl.Do calls made by the call
    inflight,   \* per goroutine: the *http.Request handed to c.cl.Do
    response,   \* per goroutine: what the HTTP layer produced for the call
    ret,        \* per goroutine: what c.request returned to the operation
    result,     \* per goroutine: what the operation returned to its caller
    fin,        \* input of the pure function under check
    fout        \* output of the pure function under check

vars == <<opts, client, pc, op, arg, sent, inflight, response, ret, result, fin, fout>>

callVars == <<pc, op, arg, sent, inflight, response, ret, result>>

-----------------------------------------------------------------------------
(* Bounds of the model *)

\* placements of a move use columns and rows 0..MaxCoord
MaxCoord == 1

\* a move holds at most MaxMove placements
MaxMove == 3

\* a Set-Cookie value holds at most MaxCookieLen tokens
MaxCookieLen == 4

-----------------------------------------------------------------------------
(* Values *)

None == [kind |-> "nil"]

Goroutines == {"g1", "g2"}

StatusOK == 200

StatusInternalServerError == 500

StatusCodes == {200, 201, 204, 400, 404, 500, 503}

-----------------------------------------------------------------------------
(* Errors: the 17 sentinels (one errors.New each), the *apiError passed      *)
(* through for an unknown type, and the fmt.Errorf errors of request,       *)
(* roundtrip and extractSessionID.                                          *)

Sentinel(name) == [kind |-> "sentinel", name |-> name]

ErrAccessDenied == Sentinel("ErrAccessDenied")
ErrAlreadyExists == Sentinel("ErrAlreadyExists")
ErrDuplicateInvite == Sentinel("ErrDuplicateInvite")
ErrGameOver == Sentinel("ErrGameOver")
ErrIllegalMove == Sentinel("ErrIllegalMove")
ErrIllegalTiles == Sentinel("ErrIllegalTiles")
ErrIllegalUserSelf == Sentinel("ErrIllegalUserSelf")
ErrIllegalWord == Sentinel("ErrIllegalWord")
ErrInvalidBoardType == Sentinel("ErrInvalidBoardType")
ErrInvalidID == Sentinel("ErrInvalidID")
ErrInvalidRuleset == Sentinel("ErrInvalidRuleset")
ErrLoginRequired == Sentinel("ErrLoginRequired")
ErrNotFound == Sentinel("ErrNotFound")
ErrNotYourTurn == Sentinel("ErrNotYourTurn")
ErrUnknownEmail == Sentinel("ErrUnknownEmail")
ErrUserNotFound == Sentinel("ErrUserNotFound")
ErrWrongPassword == Sentinel("ErrWrongPassword")

apiError(type, message) == [kind |-> "apiError", type |-> type, message |-> message]

\* fmt.Errorf("...: %v"): the text names the failing step, code and body are
\* the values formatted into it (-1 and None when the format has none).
Errorf(step, code, body) == [kind |-> "errorf", step |-> step, code |-> code, body |-> body]

\* a copy-paste slip in the map literal: user_not_found given ErrNotFound
sentinelMapSharing ==
    [t \in {"access_denied", "already_exists", "duplicate_invite", "game_over",
            "illegal_move", "illegal_tiles", "illegal_user_self", "illegal_word",
            "invalid_board_type", "invalid_id", "invalid_ruleset", "login_required",
            "not_found", "not_your_turn", "unknown_email", "user_not_found",
            "wrong_password"} |->
        CASE t = "access_denied" -> ErrAccessDenied
          [] t = "already_exists" -> ErrAlreadyExists
          [] t = "duplicate_invite" -> ErrDuplicateInvite
          [] t = "game_over" -> ErrGameOver
          [] t = "illegal_move" -> ErrIllegalMove
          [] t = "illegal_tiles" -> ErrIllegalTiles
          [] t = "illegal_user_self" -> ErrIllegalUserSelf
          [] t = "illegal_word" -> ErrIllegalWord
          [] t = "invalid_board_type" -> ErrInvalidBoardType
          [] t = "invalid_id" -> ErrInvalidID
          [] t = "invalid_ruleset" -> ErrInvalidRuleset
          [] t = "login_required" -> ErrLoginRequired
          [] t = "not_found" -> ErrNotFound
          [] t = "not_your_turn" -> ErrNotYourTurn
          [] t = "unknown_email" -> ErrUnknownEmail
          [] t = "user_not_found" -> ErrNotFound
          [] t = "wrong_password" -> ErrWrongPassword]

\* the map m of convertToSentinel
sentinelMap ==
    [t \in {"access_denied", "already_exists", "duplicate_invite", "game_over",
            "illegal_move", "illegal_tiles", "illegal_user_self", "illegal_word",
            "invalid_board_type", "invalid_id", "invalid_ruleset", "login_required",
            "not_found", "not_your_turn", "unknown_email", "user_not_found",
            "wrong_password"} |->
        CASE t = "access_denied" -> ErrAccessDenied
          [] t = "already_exists" -> ErrAlreadyExists
          [] t = "duplicate_invite" -> ErrDuplicateInvite
          [] t = "game_over" -> ErrGameOver
          [] t = "illegal_move" -> ErrIllegalMove
          [] t = "illegal_tiles" -> ErrIllegalTiles
          [] t = "illegal_user_self" -> ErrIllegalUserSelf
          [] t = "illegal_word" -> ErrIllegalWord
          [] t = "invalid_board_type" -> ErrInvalidBoardType
          [] t = "invalid_id" -> ErrInvalidID
          [] t = "invalid_ruleset" -> ErrInvalidRuleset
          [] t = "login_required" -> ErrLoginRequired
          [] t = "not_found" -> ErrNotFound
          [] t = "not_your_turn" -> ErrNotYourTurn
          [] t = "unknown_email" -> ErrUnknownEmail
          [] t = "user_not_found" -> ErrUserNotFound
          [] t = "wrong_password" -> ErrWrongPassword]

\* convertToSentinel(e *apiError): e is None for a nil pointer, and reading
\* e.Type then panics (a nil pointer dereference).
convertToSentinel(e) ==
    IF e = None
    THEN [panic |-> TRUE, err |-> None]
    ELSE IF e.type \in DOMAIN sentinelMap
         THEN [panic |-> FALSE, err |-> sentinelMap[e.type]]
         ELSE [panic |-> FALSE, err |-> e]

-----------------------------------------------------------------------------
(* Placements and the local validation of Move *)

Place(column, row, letter, blank) ==
    [Column |-> column, Row |-> row, Letter |-> letter, Blank |-> blank]

\* make([]position, n): n zero-valued positions
zeroPositions(n) == [i \in 1..n |-> [column |-> 0, row |-> 0]]

\* the inner loop: does pl sit on one of positions
RECURSIVE onSome(_, _, _)
onSome(pl, positions, k) ==
    IF k > Len(positions)
    THEN FALSE
    ELSE IF pl.Column = positions[k].column /\ pl.Row = positions[k].row
         THEN TRUE
         ELSE onSome(pl, positions, k + 1)

\* the outer loop from placement i on, with the positions collected so far
RECURSIVE uniqueFrom(_, _, _)
uniqueFrom(placements, i, positions) ==
    IF i > Len(placements)
    THEN TRUE
    ELSE IF onSome(placements[i], positions, 1)
         THEN FALSE
         ELSE uniqueFrom(placements, i + 1,
                         Append(positions, [column |-> placements[i].Column,
                                            row |-> placements[i].Row]))

\* a slip in the inner loop: each placement compared with the previous one only
uniqueSquaresAdjacent(placements) ==
    \A i \in 2..Len(placements) :
        ~(placements[i].Column = placements[i - 1].Column
          /\ placements[i].Row = placements[i - 1].Row)

uniqueSquares(placements) ==
    uniqueFrom(placements, 1, zeroPositions(Len(placements)))

-----------------------------------------------------------------------------
(* JSON documents.  A response body is empty, not JSON ("text"), the JSON    *)
(* value null, or an envelope {"status": .., "content": ..}; a missing       *)
(* status field reads as "".  A content is missing (no field), the JSON    *)
(* value null, an error descriptor {"type": .., "message": ..}, some other  *)
(* JSON object ("object"), or a JSON value that is no object ("scalar").    *)

EmptyBody == [shape |-> "empty"]

TextBody == [shape |-> "text"]

NullBody == [shape |-> "null"]

Envelope(status, content) == [shape |-> "envelope", status |-> status, content |-> content]

MissingContent == [shape |-> "missing"]

NullContent == [shape |-> "null"]

ObjectContent == [shape |-> "object"]

ScalarContent == [shape |-> "scalar"]

Descriptor(type, message) == [shape |-> "descriptor", type |-> type, message |-> message]

\* json.Unmarshal(bodyBytes, &responseBody): a json.RawMessage field keeps the
\* bytes of its value (the bytes "null" for a JSON null) and stays nil (None)
\* when the field is absent.
unmarshalEnvelope(body) ==
    CASE body.shape = "envelope" ->
            [ok |-> TRUE, Status |-> body.status,
             Content |-> IF body.content.shape = "missing" THEN None ELSE body.content]
      [] body.shape = "null" -> [ok |-> TRUE, Status |-> "", Content |-> None]
      [] OTHER -> [ok |-> FALSE, Status |-> "", Content |-> None]

\* json.Unmarshal(responseBody.Content, &e) with e a nil *apiError: no bytes
\* is an error, null leaves e nil, an object fills a new apiError (absent
\* fields stay ""), any other JSON value is an error.
unmarshalAPIError(content) ==
    CASE content = None -> [ok |-> FALSE, e |-> None]
      [] content.shape = "null" -> [ok |-> TRUE, e |-> None]
      [] content.shape = "descriptor" -> [ok |-> TRUE, e |-> apiError(content.type, content.message)]
      [] content.shape = "object" -> [ok |-> TRUE, e |-> apiError("", "")]
      [] OTHER -> [ok |-> FALSE, e |-> None]

-----------------------------------------------------------------------------
(* The transport call, Client.request *)

\* strings.Trim(path, "/"): a path is [lead, segs, trail], its slashes at
\* either end and the segments between them
trimSlashes(path) == [lead |-> FALSE, segs |-> path.segs, trail |-> FALSE]

\* lines 60-71: the *http.Request, or the error of http.NewRequest when the
\* URL does not parse
newRequest(c, method, path, session, body) ==
    IF ~c.baseURL.parses
    THEN [ok |-> FALSE, req |-> None, err |-> Errorf("creating request", -1, None)]
    ELSE [ok |-> TRUE,
          req |-> [method |-> method,
                   url |-> <<c.baseURL.text, "/", trimSlashes(path).segs, "/">>,
                   accept |-> "application/json",
                   contentType |-> IF body # None THEN "application/json" ELSE "",
                   cookie |-> IF session # "" THEN <<"sessionid=", session>> ELSE <<>>,
                   body |-> body],
          err |-> None]

\* an empty 2xx body taken for a success
isStatusOKAny2xx(code) == code >= 200 /\ code < 300

\* line 92: res.StatusCode == http.StatusOK
isStatusOK(code) == code = StatusOK

\* an off-by-one in the comparison
isServerFaultAbove(code) == code > StatusInternalServerError

\* the status code checked before the envelope for every code that is not a success
isServerFaultFrom400(code) == code >= 400

\* line 100: res.StatusCode >= http.StatusInternalServerError
isServerFault(code) == code >= StatusInternalServerError

\* Body.Close called at the end of the success path instead of deferred
ReturnedClosingOnSuccess(res, err, closes, parses) ==
    [res |-> res, err |-> err, panic |-> FALSE,
     closes |-> IF err = None THEN closes ELSE 0, parses |-> parses]

\* What request returns and does: res and err are the returned pair, panic is
\* set when the call panics instead of returning, closes counts Body.Close
\* calls and parses counts json.Unmarshal calls.
Returned(res, err, closes, parses) ==
    [res |-> res, err |-> err, panic |-> FALSE, closes |-> closes, parses |-> parses]

Panicked(closes, parses) ==
    [res |-> None, err |-> None, panic |-> TRUE, closes |-> closes, parses |-> parses]

\* lines 113-120: the envelope says "error"
errorEnvelope(code, content) ==
    LET u == unmarshalAPIError(content)
    IN  IF ~u.ok
        THEN Returned(None, Errorf("unmarshalling error response", code, None), 1, 2)
        ELSE LET s == convertToSentinel(u.e)
             IN  IF s.panic THEN Panicked(1, 2) ELSE Returned(None, s.err, 1, 2)

\* lines 73-126: from c.cl.Do on.  out is what the HTTP layer produces: Do's
\* error ("dofail"), a response whose body cannot be read ("readfail"), or a
\* response with its status code, header and body.
handleResponse(out) ==
    CASE out.kind = "dofail" -> Returned(None, Errorf("sending request", -1, None), 0, 0)
      [] out.kind = "readfail" -> Returned(None, Errorf("reading response body", -1, None), 1, 0)
      [] OTHER ->
            IF out.body.shape = "empty"
            THEN IF isStatusOK(out.code)
                 THEN Returned([Content |-> None, Header |-> out.header], None, 1, 0)
                 ELSE Returned(None, Errorf("status code (no body)", out.code, None), 1, 0)
            ELSE IF isServerFault(out.code)
            THEN Returned(None, Errorf("status code", out.code, out.body), 1, 0)
            ELSE LET responseBody == unmarshalEnvelope(out.body)
                 IN  IF ~responseBody.ok
                     THEN Returned(None, Errorf("unmarshalling response body", out.code, None), 1, 1)
                     ELSE IF responseBody.Status = "error"
                     THEN errorEnvelope(out.code, responseBody.Content)
                     ELSE Returned([Content |-> responseBody.Content, Header |-> out.header],
                                   None, 1, 1)

-----------------------------------------------------------------------------
(* Session extraction *)

SessionKey == "sessionid="

\* r.Header.Get("Set-Cookie"): a header is the sequence of its Set-Cookie
\* values; Get gives the first one, "" when there is none
headerGet(header) == IF Len(header) = 0 THEN <<>> ELSE header[1]

\* (.+?)(?:;|$) from token i on: the least end j >= i of a non-empty group
\* that is followed by ';' or by the end of the text; 0 when there is none
RECURSIVE lazyGroupEnd(_, _)
lazyGroupEnd(s, j) ==
    IF j > Len(s)
    THEN 0
    ELSE IF j = Len(s) \/ s[j + 1] = ";"
         THEN j
         ELSE lazyGroupEnd(s, j + 1)

\* cookieRegexp.FindStringSubmatch(cookie): the leftmost match of
\* sessionid=(.+?)(?:;|$), as <<match, group 1>>; <<>> when nothing matches
RECURSIVE findStringSubmatch(_, _)
findStringSubmatch(s, i) ==
    IF i > Len(s)
    THEN <<>>
    ELSE IF s[i] = SessionKey /\ lazyGroupEnd(s, i + 1) # 0
         THEN LET j == lazyGroupEnd(s, i + 1)
                  e == IF j < Len(s) THEN j + 1 ELSE j
              IN  <<SubSeq(s, i, e), SubSeq(s, i + 1, j)>>
         ELSE findStringSubmatch(s, i + 1)

extractSessionID(r) ==
    LET cookie == headerGet(r.Header)
    IN  IF cookie = <<>>
        THEN [session |-> <<>>, err |-> Errorf("cookie not found in response", -1, None)]
        ELSE LET matches == findStringSubmatch(cookie, 1)
             IN  IF Len(matches) < 2
                 THEN [session |-> <<>>, err |-> Errorf("sessionid not found in cookie", -1, None)]
                 ELSE [session |-> matches[2], err |-> None]

-----------------------------------------------------------------------------
(* The decode helper and the endpoint operations *)

\* What an operation returns: its value (None for nil), the session of a
\* login, its error; panic is set when the call panics instead of returning.
Result(val, session, err) == [val |-> val, session |-> session, err |-> err, panic |-> FALSE]

PanicResult == [val |-> None, session |-> <<>>, err |-> None, panic |-> TRUE]

\* json.Unmarshal(content, &t) with t a struct: no bytes and a JSON value
\* that is no object are errors, null leaves t zero, an object fills t
unmarshalsIntoStruct(content) ==
    content # None /\ content.shape \in {"null", "object", "descriptor"}

\* roundtrip, lines 28-40: after c.request returned r
roundtripFinish(r) ==
    IF r.panic THEN PanicResult
    ELSE IF r.err # None THEN Result(None, <<>>, r.err)
    ELSE IF r.res.Content = None
    THEN Result(None, <<>>, Errorf("response body content field is empty", -1, None))
    ELSE IF ~unmarshalsIntoStruct(r.res.Content)
    THEN Result(None, <<>>, Errorf("unmarshalling response body", -1, None))
    ELSE Result([decoded |-> r.res.Content], <<>>, None)

\* LoginWithEmail and LoginWithID after c.request returned r
loginFinish(r) ==
    IF r.panic THEN PanicResult
    ELSE IF r.err # None THEN Result(None, <<>>, r.err)
    ELSE LET x == extractSessionID(r.res)
         IN  Result(None, x.session, x.err)

\* CreateAccount after c.request returned r
createAccountFinish(r) ==
    IF r.panic THEN PanicResult
    ELSE IF r.err # None THEN Result(None, <<>>, r.err)
    ELSE IF ~unmarshalsIntoStruct(r.res.Content)
    THEN Result(None, <<>>, Errorf("unmarshalling response", -1, None))
    ELSE LET x == extractSessionID(r.res)
         IN  IF x.err # None
             THEN Result(None, <<>>, x.err)
             ELSE Result([decoded |-> r.res.Content], x.session, None)

\* ChangePassword, DeleteRelationship, RejectInvitation: the error alone
errorOnlyFinish(r) ==
    IF r.panic THEN PanicResult ELSE Result(None, <<>>, r.err)

Path(lead, segs) == [lead |-> lead, segs |-> segs, trail |-> FALSE]

Endpoint(name, method, path, hasBody, finish) ==
    [name |-> name, method |-> method, path |-> path, hasBody |-> hasBody, finish |-> finish]

\* the exported methods of Client, each with its method, its path, whether it
\* sends a body, and how it turns the transport's result into its own
Endpoints ==
    { Endpoint("CreateAccount", "POST", Path(TRUE, <<"user", "create">>), TRUE, "createAccount"),
      Endpoint("LoginWithEmail", "POST", Path(TRUE, <<"user", "login", "email">>), TRUE, "login"),
      Endpoint("LoginWithID", "POST", Path(TRUE, <<"user", "login", "id">>), TRUE, "login"),
      Endpoint("ChangePassword", "POST", Path(TRUE, <<"user", "password", "set">>), TRUE, "errorOnly"),
      Endpoint("UpdateAvatar", "POST", Path(TRUE, <<"user", "avatar", "upload">>), TRUE, "roundtrip"),
      Endpoint("Relationships", "GET", Path(TRUE, <<"user", "relationships">>), FALSE, "roundtrip"),
      Endpoint("CreateRelationship", "POST", Path(TRUE, <<"relationship", "create">>), TRUE, "roundtrip"),
      Endpoint("DeleteRelationship", "POST", Path(TRUE, <<"relationship", "%d", "delete">>), FALSE, "errorOnly"),
      Endpoint("Games", "GET", Path(TRUE, <<"user", "games">>), FALSE, "roundtrip"),
      Endpoint("Game", "GET", Path(TRUE, <<"game", "%d">>), FALSE, "roundtrip"),
      Endpoint("Invite", "POST", Path(TRUE, <<"invite", "new">>), TRUE, "roundtrip"),
      Endpoint("InviteRandomOpponent", "POST", Path(FALSE, <<"random_request", "create">>), TRUE, "roundtrip"),
      Endpoint("AcceptInvitation", "POST", Path(TRUE, <<"invite", "%d", "accept">>), FALSE, "roundtrip"),
      Endpoint("RejectInvitation", "POST", Path(TRUE, <<"invite", "%d", "reject">>), FALSE, "errorOnly"),
      Endpoint("Move", "POST", Path(TRUE, <<"game", "%d", "move">>), TRUE, "roundtrip"),
      Endpoint("Pass", "POST", Path(TRUE, <<"game", "%d", "pass">>), FALSE, "roundtrip"),
      Endpoint("Resign", "POST", Path(TRUE, <<"game", "%d", "resign">>), FALSE, "roundtrip"),
      Endpoint("ChatMessages", "GET", Path(TRUE, <<"user", "%d", "chat">>), FALSE, "roundtrip"),
      Endpoint("SendChatMessage", "POST", Path(TRUE, <<"game", "%d", "chat", "send">>), TRUE, "roundtrip"),
      Endpoint("Board", "GET", Path(TRUE, <<"board", "%d">>), FALSE, "roundtrip") }

EndpointNamed(name) == CHOOSE e \in Endpoints : e.name = name

\* The arguments of a call: the session, the placements of a Move, and
\* whether the image reader of an UpdateAvatar can be read.
Args(session, move, imageOK) == [session |-> session, move |-> move, imageOK |-> imageOK]

\* Board sends no session; the logins and CreateAccount have none yet
sessionOf(o, a) ==
    IF o.name \in {"Board", "CreateAccount", "LoginWithEmail", "LoginWithID"}
    THEN ""
    ELSE a.session

\* Move with the check of its placements left out
localErrorUnchecked(o, a) ==
    CASE o.name = "UpdateAvatar" /\ ~a.imageOK -> Errorf("reading image", -1, None)
      [] OTHER -> None

\* What an operation does before it calls the transport: Move checks its
\* placements (lines 337-339), UpdateAvatar reads the image (lines 212-215).
\* The error it returns without calling the transport, None when it goes on.
localError(o, a) ==
    CASE o.name = "Move" /\ ~uniqueSquares(a.move) -> ErrIllegalMove
      [] o.name = "UpdateAvatar" /\ ~a.imageOK -> Errorf("reading image", -1, None)
      [] OTHER -> None

\* the body handed to c.request: the marshalled arguments, nil without a body
bodyOf(o, a) ==
    IF ~o.hasBody THEN None
    ELSE IF o.name = "Move" THEN [json |-> "body", move |-> a.move]
    ELSE [json |-> "body", move |-> <<>>]

\* the operation's return after c.request returned r
finish(o, r) ==
    CASE o.finish = "roundtrip" -> roundtripFinish(r)
      [] o.finish = "login" -> loginFinish(r)
      [] o.finish = "createAccount" -> createAccountFinish(r)
      [] OTHER -> errorOnlyFinish(r)

-----------------------------------------------------------------------------
(* The Client *)

DefaultBaseURL == [text |-> "https://game.wordfeud.com/wf", slash |-> FALSE, parses |-> TRUE]

WithHTTPClient(cl) == [option |-> "WithHTTPClient", cl |-> cl, baseURL |-> DefaultBaseURL]

\* strings.TrimSuffix(baseURL, "/")
WithBaseURL(baseURL) ==
    [option |-> "WithBaseURL", cl |-> "", baseURL |-> [baseURL EXCEPT !.slash = FALSE]]

applyOption(c, o) ==
    IF o.option = "WithHTTPClient"
    THEN [c EXCEPT !.cl = o.cl]
    ELSE [c EXCEPT !.baseURL = o.baseURL]

RECURSIVE applyOptions(_, _, _)
applyOptions(c, os, i) ==
    IF i > Len(os) THEN c ELSE applyOptions(applyOption(c, os[i]), os, i + 1)

NewClient(os) ==
    applyOptions([cl |-> "http.DefaultClient", baseURL |-> DefaultBaseURL], os, 1)

\* a transport call that records its path on the client
clientAfterCallRecording(c, o) == [c EXCEPT !.baseURL.text = o.name]

\* The Client after a call of operation o on it: the methods read c.cl and
\* c.baseURL and assign neither.
clientAfterCall(c, o) == c

-----------------------------------------------------------------------------
(* Inputs *)

Letters == {<<"A", FALSE>>, <<"B", TRUE>>}

Placements ==
    { Place(c, r, l[1], l[2]) : c \in 0..MaxCoord, r \in 0..MaxCoord, l \in Letters }

RECURSIVE SeqsUpTo(_, _)
SeqsUpTo(S, n) ==
    IF n = 0
    THEN {<<>>}
    ELSE LET shorter == SeqsUpTo(S, n - 1)
         IN  shorter \cup { Append(q, x) : q \in { t \in shorter : Len(t) = n - 1 }, x \in S }

MoveLists == SeqsUpTo(Placements, MaxMove)

\* the moves of the concurrent calls: the README's first two placements, a
\* repeated square, and the corner square
SomeMoves ==
    { <<Place(7, 5, "H", FALSE), Place(7, 6, "E", FALSE)>>,
      <<Place(7, 5, "H", FALSE), Place(7, 5, "E", FALSE)>>,
      <<Place(0, 0, "H", FALSE)>> }

KnownTypes == DOMAIN sentinelMap

OtherTypes == {"", "Not_Found", "NOT_YOUR_TURN", "server_busy"}

Messages == {"", "x", "not your turn"}

Contents ==
    {MissingContent, NullContent, ObjectContent, ScalarContent}
    \cup { Descriptor(t, m) : t \in KnownTypes \cup OtherTypes, m \in {"", "x"} }

Bodies ==
    {EmptyBody, TextBody, NullBody}
    \cup { Envelope(st, c) : st \in {"ok", "error", "", "Error"}, c \in Contents }

SessionCookie == <<SessionKey, "a", "b", ";", " ">>

Headers == { <<>>, <<SessionCookie>> }

Outcomes ==
    {[kind |-> "dofail"]}
    \cup { [kind |-> "readfail", code |-> c, header |-> h] : c \in StatusCodes, h \in Headers }
    \cup { [kind |-> "response", code |-> c, header |-> h, body |-> b] :
             c \in StatusCodes, h \in Headers, b \in Bodies }

SomeOutcomes ==
    { [kind |-> "dofail"],
      [kind |-> "readfail", code |-> 200, header |-> <<>>],
      [kind |-> "response", code |-> 200, header |-> <<SessionCookie>>,
       body |-> Envelope("ok", ObjectContent)],
      [kind |-> "response", code |-> 200, header |-> <<>>,
       body |-> Envelope("error", Descriptor("not_your_turn", "x"))],
      [kind |-> "response", code |-> 404, header |-> <<>>,
       body |-> Envelope("ok", ObjectContent)],
      [kind |-> "response", code |-> 200, header |-> <<>>, body |-> EmptyBody],
      [kind |-> "response", code |-> 503, header |-> <<>>, body |-> TextBody] }

BadBaseURL == [text |-> "%zz", slash |-> FALSE, parses |-> FALSE]

OptionLists ==
    { <<>>,
      <<WithBaseURL([text |-> "http://localhost/wf", slash |-> TRUE, parses |-> TRUE])>>,
      <<WithHTTPClient("custom"), WithBaseURL([text |-> "http://localhost/wf", slash |-> FALSE, parses |-> TRUE])>>,
      <<WithBaseURL(BadBaseURL)>> }

CookieTokens == {SessionKey, "a", ";", " "}

CookieValues == SeqsUpTo(CookieTokens, MaxCookieLen)

\* response headers: no Set-Cookie, one, or one followed by a second
CookieHeaders ==
    {<<>>}
    \cup { <<v>> : v \in CookieValues }
    \cup { <<v, w>> : v \in CookieValues, w \in {<<SessionKey, "a">>, <<"a">>} }

-----------------------------------------------------------------------------
(* Actions *)

NoCall == [name |-> "none"]

\* goroutine g calls operation o with arguments a: the operation runs up to
\* its c.cl.Do(req), or returns before it when it fails locally
Call(g, o, a) ==
    /\ pc[g] = "idle"
    /\ op' = [op EXCEPT ![g] = o]
    /\ arg' = [arg EXCEPT ![g] = a]
    /\ client' = clientAfterCall(client, o)
    /\ LET e == localError(o, a)
           n == newRequest(client, o.method, o.path, sessionOf(o, a), bodyOf(o, a))
       IN  IF e # None
           THEN /\ pc' = [pc EXCEPT ![g] = "returned"]
                /\ result' = [result EXCEPT ![g] = Result(None, <<>>, e)]
                /\ UNCHANGED <<sent, inflight>>
           ELSE IF ~n.ok
           THEN /\ pc' = [pc EXCEPT ![g] = "returned"]
                /\ result' = [result EXCEPT ![g] = finish(o, Returned(None, n.err, 0, 0))]
                /\ UNCHANGED <<sent, inflight>>
           ELSE /\ pc' = [pc EXCEPT ![g] = "inflight"]
                /\ sent' = [sent EXCEPT ![g] = @ + 1]
                /\ inflight' = [inflight EXCEPT ![g] = n.req]
                /\ UNCHANGED result
    /\ UNCHANGED <<opts, response, ret, fin, fout>>

\* the HTTP layer produces out for goroutine g's request: c.request finishes
\* and the operation returns
Complete(g, out) ==
    /\ pc[g] = "inflight"
    /\ response' = [response EXCEPT ![g] = out]
    /\ ret' = [ret EXCEPT ![g] = handleResponse(out)]
    /\ result' = [result EXCEPT ![g] = finish(op[g], handleResponse(out))]
    /\ pc' = [pc EXCEPT ![g] = "returned"]
    /\ UNCHANGED <<opts, client, op, arg, sent, inflight, fin, fout>>

\* convertToSentinel applied to the descriptor fin
Convert ==
    /\ fout = None
    /\ fin # None
    /\ fin.kind = "apiError"
    /\ fout' = convertToSentinel(fin)
    /\ UNCHANGED <<opts, client, callVars, fin>>

\* extractSessionID applied to a response with the header fin
Extract ==
    /\ fout = None
    /\ fin # None
    /\ fin.kind = "header"
    /\ fout' = extractSessionID([Content |-> None, Header |-> fin.header])
    /\ UNCHANGED <<opts, client, callVars, fin>>

-----------------------------------------------------------------------------
(* Specifications *)

InitCalls ==
    /\ client = NewClient(opts)
    /\ pc = [g \in Goroutines |-> "idle"]
    /\ op = [g \in Goroutines |-> NoCall]
    /\ arg = [g \in Goroutines |-> None]
    /\ sent = [g \in Goroutines |-> 0]
    /\ inflight = [g \in Goroutines |-> None]
    /\ response = [g \in Goroutines |-> None]
    /\ ret = [g \in Goroutines |-> None]
    /\ result = [g \in Goroutines |-> None]

\* the arguments the concurrent calls are made with
SomeArgs(o) ==
    CASE o.name = "Move" -> { Args("s1", m, TRUE) : m \in SomeMoves }
      [] o.name = "UpdateAvatar" -> { Args("s1", <<>>, ok) : ok \in BOOLEAN }
      [] OTHER -> { Args("s1", <<>>, TRUE) }

\* Concurrent calls of the endpoint operations on one client
Init ==
    /\ opts \in OptionLists
    /\ InitCalls
    /\ fin = None
    /\ fout = None

Next ==
    \/ \E g \in Goroutines, o \in Endpoints : \E a \in SomeArgs(o) : Call(g, o, a)
    \/ \E g \in Goroutines, out \in SomeOutcomes : Complete(g, out)

Spec == Init /\ [][Next]_vars

\* One call of Move, over the bounded lists of placements
InitMove ==
    /\ opts = <<>>
    /\ InitCalls
    /\ fin = None
    /\ fout = None

NextMove ==
    \/ /\ pc["g1"] = "idle"
       /\ \E m \in MoveLists : Call("g1", EndpointNamed("Move"), Args("s1", m, TRUE))
    \/ /\ pc["g1"] = "inflight"
       /\ \E out \in SomeOutcomes : Complete("g1", out)

SpecMove == InitMove /\ [][NextMove]_vars

\* One transport call, over every outcome of the HTTP layer
RequestEndpoints ==
    { EndpointNamed(n) : n \in {"RejectInvitation", "Pass", "LoginWithEmail", "CreateAccount"} }

NextRequest ==
    \/ /\ pc["g1"] = "idle"
       /\ \E o \in RequestEndpoints, s \in {"", "s1"} : Call("g1", o, Args(s, <<>>, TRUE))
    \/ /\ pc["g1"] = "inflight"
       /\ \E out \in Outcomes : Complete("g1", out)

SpecRequest == InitMove /\ [][NextRequest]_vars

\* convertToSentinel over the error descriptors
InitSentinel ==
    /\ opts = <<>>
    /\ InitCalls
    /\ fin \in { apiError(t, m) : t \in KnownTypes \cup OtherTypes, m \in Messages }
    /\ fout = None

NextSentinel == Convert

SpecSentinel == InitSentinel /\ [][NextSentinel]_vars

\* extractSessionID over the bounded Set-Cookie headers
InitCookie ==
    /\ opts = <<>>
    /\ InitCalls
    /\ fin \in { [kind |-> "header", header |-> h] : h \in CookieHeaders }
    /\ fout = None

NextCookie == Extract

SpecCookie == InitCookie /\ [][NextCookie]_vars

-----------------------------------------------------------------------------
(* Properties *)

SameSquare(p, q) == p.Column = q.Column /\ p.Row = q.Row

HasDuplicate(m) == \E i, j \in 1..Len(m) : i < j /\ SameSquare(m[i], m[j])

IsMoveCall(g) == pc[g] # "idle" /\ op[g].name = "Move"

\* C1: a Move whose placement list holds two placements on the same
\* (column, row), wherever they stand in the list and whatever their letters,
\* returns ErrIllegalMove with a nil result and sends no HTTP request.
C1_DuplicateFailsLocally ==
    \A g \in Goroutines :
        (IsMoveCall(g) /\ HasDuplicate(arg[g].move)) =>
            /\ pc[g] = "returned"
            /\ result[g] = Result(None, <<>>, ErrIllegalMove)
            /\ sent[g] = 0
            /\ inflight[g] = None

\* a Move of three placements, the first and the last on one square that is
\* not the corner and the second elsewhere, has returned ErrIllegalMove
C1_Witness ==
    /\ IsMoveCall("g1")
    /\ Len(arg["g1"].move) = 3
    /\ SameSquare(arg["g1"].move[1], arg["g1"].move[3])
    /\ ~SameSquare(arg["g1"].move[1], arg["g1"].move[2])
    /\ arg["g1"].move[1].Column # 0
    /\ arg["g1"].move[1].Letter # arg["g1"].move[3].Letter
    /\ result["g1"] = Result(None, <<>>, ErrIllegalMove)
    /\ sent["g1"] = 0

\* C2: a Move whose placements are on pairwise distinct squares, the square
\* (0,0) included, for every list length from 0 on, passes uniqueSquares, does
\* not fail locally and issues its HTTP request.
C2_DistinctSquaresPass ==
    \A g \in Goroutines :
        (IsMoveCall(g) /\ ~HasDuplicate(arg[g].move)) =>
            /\ uniqueSquares(arg[g].move)
            /\ sent[g] = 1
            /\ inflight[g] # None

IsResponse(g) == pc[g] = "returned" /\ response[g] # None /\ response[g].kind = "response"

RecognizedError(out) ==
    /\ out.body.shape = "envelope"
    /\ out.body.status = "error"
    /\ out.body.content.shape = "descriptor"
    /\ out.body.content.type \in KnownTypes

\* C3, as claimed: a body that is an "error" envelope with a recognized type
\* fails the transport call with that type's sentinel whatever the HTTP
\* status code, 5xx included.
C3_SentinelAtAnyStatus ==
    \A g \in Goroutines :
        (IsResponse(g) /\ RecognizedError(response[g])) =>
            /\ ~ret[g].panic
            /\ ret[g].res = None
            /\ ret[g].err = sentinelMap[response[g].body.content.type]

\* C3, amended: a body that is an "error" envelope with a recognized type
\* fails the transport call with that type's sentinel at every HTTP status
\* code below 500 (200 and 4xx alike); from 500 on the call fails with the
\* status-code error instead.
C3_SentinelBelow500 ==
    \A g \in Goroutines :
        (IsResponse(g) /\ RecognizedError(response[g])) =>
            /\ ~ret[g].panic
            /\ ret[g].res = None
            /\ response[g].code < 500 =>
                ret[g].err = sentinelMap[response[g].body.content.type]
            /\ response[g].code >= 500 =>
                ret[g].err = Errorf("status code", response[g].code, response[g].body)

\* a 404 response with a not_your_turn error envelope has failed with
\* ErrNotYourTurn
C3_Witness ==
    /\ IsResponse("g1")
    /\ response["g1"].code = 404
    /\ response["g1"].body = Envelope("error", Descriptor("not_your_turn", "x"))
    /\ ret["g1"].err = ErrNotYourTurn

IsSuccess(r, out) ==
    /\ ~r.panic
    /\ r.err = None
    /\ r.res # None
    /\ r.res.Header = out.header

\* C4, as claimed: with an empty body the transport call succeeds with nil
\* content and the response headers at every 2xx status code, and fails with
\* a status-code error and no response at every other code.
C4_EmptyBodyAny2xx ==
    \A g \in Goroutines :
        (IsResponse(g) /\ response[g].body = EmptyBody) =>
            IF response[g].code >= 200 /\ response[g].code < 300
            THEN IsSuccess(ret[g], response[g]) /\ ret[g].res.Content = None
            ELSE /\ ret[g].res = None
                 /\ ret[g].err = Errorf("status code (no body)", response[g].code, None)

\* C4, amended: with an empty body the transport call succeeds with nil
\* content and the response headers when the status code is exactly 200, and
\* fails with a status-code error and no response at every other code, the
\* other 2xx codes (201, 204) included.
C4_EmptyBodyOnly200 ==
    \A g \in Goroutines :
        (IsResponse(g) /\ response[g].body = EmptyBody) =>
            IF response[g].code = 200
            THEN IsSuccess(ret[g], response[g]) /\ ret[g].res.Content = None
            ELSE /\ ~ret[g].panic
                 /\ ret[g].res = None
                 /\ ret[g].err = Errorf("status code (no body)", response[g].code, None)

\* an empty 204 response has failed with the status-code error
C4_Witness ==
    /\ IsResponse("g1")
    /\ response["g1"].body = EmptyBody
    /\ response["g1"].code = 204
    /\ ret["g1"].err = Errorf("status code (no body)", 204, None)
    /\ ret["g1"].res = None

\* C5: for every response with status code >= 500 the transport call fails
\* with an error carrying the status code and the raw body, without any JSON
\* parsing, whether the body is not JSON, an "ok" envelope or an "error"
\* envelope; no such response yields a success, of the transport call or of
\* the operation that made it.
C5_ServerFault ==
    \A g \in Goroutines :
        (IsResponse(g) /\ response[g].code >= 500) =>
            /\ ~ret[g].panic
            /\ ret[g].res = None
            /\ ret[g].parses = 0
            /\ ret[g].err # None
            /\ ret[g].err.kind = "errorf"
            /\ ret[g].err.code = response[g].code
            /\ response[g].body # EmptyBody =>
                ret[g].err = Errorf("status code", response[g].code, response[g].body)
            /\ result[g].err = ret[g].err
            /\ result[g].val = None

\* a 503 response whose body is a well-formed "ok" envelope has failed with
\* the status code and the body
C5_Witness ==
    /\ IsResponse("g1")
    /\ response["g1"].code = 503
    /\ response["g1"].body = Envelope("ok", ObjectContent)
    /\ ret["g1"].err = Errorf("status code", 503, Envelope("ok", ObjectContent))
    /\ ret["g1"].parses = 0

Seventeen ==
    {"access_denied", "already_exists", "duplicate_invite", "game_over", "illegal_move",
     "illegal_tiles", "illegal_user_self", "illegal_word", "invalid_board_type",
     "invalid_id", "invalid_ruleset", "login_required", "not_found", "not_your_turn",
     "unknown_email", "user_not_found", "wrong_password"}

\* C6: convertToSentinel gives each of the 17 known type strings a sentinel of
\* its own, shared with no other type and the same for every message; any
\* other type string (the empty one and those differing in case included)
\* comes back as the descriptor itself, type and message unchanged.
C6_SentinelPerType ==
    (fout # None /\ fin.kind = "apiError") =>
        /\ ~fout.panic
        /\ Cardinality(Seventeen) = 17
        /\ fin.type \in Seventeen =>
            /\ fout.err.kind = "sentinel"
            /\ \A t \in Seventeen \ {fin.type}, m \in Messages :
                   convertToSentinel(apiError(t, m)).err # fout.err
            /\ \A m \in Messages :
                   convertToSentinel(apiError(fin.type, m)).err = fout.err
        /\ fin.type \notin Seventeen =>
            fout.err = apiError(fin.type, fin.message)

\* user_not_found with a message has been turned into ErrUserNotFound
C6_Witness ==
    /\ fout # None
    /\ fin = apiError("user_not_found", "x")
    /\ fout.err = ErrUserNotFound

\* the characters of s after its first "sessionid=", up to but not including
\* the next ';' or the end
RECURSIVE UpToSemicolon(_, _)
UpToSemicolon(s, i) ==
    IF i > Len(s) \/ s[i] = ";" THEN <<>> ELSE <<s[i]>> \o UpToSemicolon(s, i + 1)

HasAttribute(s) == \E i \in 1..Len(s) : s[i] = SessionKey

AttributeValue(s) ==
    UpToSemicolon(s, 1 + CHOOSE i \in 1..Len(s) :
                         s[i] = SessionKey /\ \A k \in 1..(i - 1) : s[k] # SessionKey)

\* C7: from a Set-Cookie header holding sessionid=V (V not empty),
\* extractSessionID returns exactly V, the characters after "sessionid=" up to
\* but not including the next ';' or the end; it fails with the empty session when the header is
\* absent or holds no sessionid attribute; it never returns a value that
\* holds a ';'.
C7_ExtractsValue ==
    (fout # None /\ fin.kind = "header") =>
        LET cookie == headerGet(fin.header)
        IN  /\ \A k \in 1..Len(fout.session) : fout.session[k] # ";"
            /\ (HasAttribute(cookie) /\ AttributeValue(cookie) # <<>>) =>
                (fout.err = None /\ fout.session = AttributeValue(cookie))
            /\ ~HasAttribute(cookie) => (fout.err # None /\ fout.session = <<>>)

LocalFailure(g) ==
    \/ op[g].name = "Move" /\ ~uniqueSquares(arg[g].move)
    \/ op[g].name = "UpdateAvatar" /\ ~arg[g].imageOK
    \/ ~NewClient(opts).baseURL.parses

\* C8, as claimed: every call of an endpoint operation that has returned has
\* sent its request exactly once.
C8_ExactlyOneRequest ==
    \A g \in Goroutines : pc[g] = "returned" => sent[g] = 1

\* C8, amended: every call of an endpoint operation sends its request at most
\* once and never again after a transport failure, a server fault or a logical
\* error; a call that has returned has sent it exactly once and returned after
\* the HTTP layer answered, unless it failed before the transport was reached
\* (Move rejecting its placements, UpdateAvatar failing to read the image, the
\* request not being constructible from the base URL), and then it sent none.
C8_AtMostOneRequest ==
    \A g \in Goroutines :
        /\ sent[g] \in {0, 1}
        /\ pc[g] = "idle" => sent[g] = 0
        /\ pc[g] = "inflight" => (sent[g] = 1 /\ ~LocalFailure(g))
        /\ pc[g] = "returned" =>
            IF LocalFailure(g)
            THEN sent[g] = 0 /\ response[g] = None /\ result[g].err # None
            ELSE sent[g] = 1 /\ response[g] # None

\* one call has returned after a failed round trip, sent once; the other is a
\* Move on a repeated square that returned without sending
C8_Witness ==
    /\ pc["g1"] = "returned"
    /\ response["g1"] = [kind |-> "dofail"]
    /\ sent["g1"] = 1
    /\ pc["g2"] = "returned"
    /\ op["g2"].name = "Move"
    /\ HasDuplicate(arg["g2"].move)
    /\ sent["g2"] = 0

\* what a call returns, from its own operation, arguments and response alone
OwnResult(o, a, out) ==
    IF localError(o, a) # None
    THEN Result(None, <<>>, localError(o, a))
    ELSE IF ~NewClient(opts).baseURL.parses
    THEN finish(o, Returned(None, Errorf("creating request", -1, None), 0, 0))
    ELSE finish(o, handleResponse(out))

\* C9: after NewClient has returned no operation writes the client's base URL
\* or HTTP client, and in every interleaving of the calls of two goroutines
\* on the one client each call's request and result are those of its own
\* operation, arguments and response.
C9_ConcurrentUse ==
    /\ client = NewClient(opts)
    /\ \A g \in Goroutines :
        /\ sent[g] = 1 =>
            inflight[g] = newRequest(NewClient(opts), op[g].method, op[g].path,
                                     sessionOf(op[g], arg[g]), bodyOf(op[g], arg[g])).req
        /\ pc[g] = "returned" => result[g] = OwnResult(op[g], arg[g], response[g])

\* g2's call was made and answered while g1's request was in flight, on a
\* client built with options
C9_Witness ==
    /\ opts # <<>>
    /\ pc["g1"] = "inflight"
    /\ op["g1"].name = "Move"
    /\ pc["g2"] = "returned"
    /\ op["g2"].name = "LoginWithEmail"
    /\ sent["g2"] = 1
    /\ result["g2"].session = <<"a", "b">>

StatusField(body) == IF body.shape = "envelope" THEN body.status ELSE ""

\* C10: request returns a success response only if the HTTP status code is
\* 200 and the body's status field is not "error"; a response with another
\* status code, a 4xx with a well-formed non-error envelope included, and a
\* response whose status field is "error" make it return no response.
C10_SuccessOnlyAt200 ==
    \A g \in Goroutines :
        (IsResponse(g) /\ ret[g].res # None) =>
            /\ response[g].code = 200
            /\ StatusField(response[g].body) # "error"

UnparsableDescriptor(out) ==
    /\ out.body.shape = "envelope"
    /\ out.body.status = "error"
    /\ out.body.content.shape \in {"missing", "null", "scalar"}

\* C11: when the envelope status is "error" and its content does not parse as
\* an error descriptor (content missing, JSON null, or a JSON value of another
\* shape), at a status code below 500 where the envelope is read, the
\* transport call returns the decode error that includes the HTTP status
\* code: a returned error value, never a panic and never a success.
C11_DecodeErrorNotPanic ==
    \A g \in Goroutines :
        (IsResponse(g) /\ response[g].code < 500 /\ UnparsableDescriptor(response[g])) =>
            /\ ~ret[g].panic
            /\ ~result[g].panic
            /\ ret[g].res = None
            /\ ret[g].err = Errorf("unmarshalling error response", response[g].code, None)

IsRoundtrip(g) ==
    pc[g] = "returned" /\ op[g].finish = "roundtrip" /\ response[g] # None

\* C12: roundtrip fails with an error and a nil result whenever the transport
\* call succeeded with absent (nil) content, for an empty 200 body as for a
\* non-error envelope without a content field; it returns the transport
\* call's error unchanged with a nil result whenever that call failed; in
\* every case exactly one of result and error is non-nil, and a non-nil result
\* is the content JSON-decoded into the target without error.
C12_RoundtripResultOrError ==
    \A g \in Goroutines :
        IsRoundtrip(g) =>
            /\ ~result[g].panic
            /\ (result[g].val = None) # (result[g].err = None)
            /\ (ret[g].err = None /\ ret[g].res # None /\ ret[g].res.Content = None) =>
                result[g] = Result(None, <<>>,
                                   Errorf("response body content field is empty", -1, None))
            /\ ret[g].err # None => result[g] = Result(None, <<>>, ret[g].err)
            /\ result[g].val # None =>
                /\ ret[g].err = None
                /\ ret[g].res.Content # None
                /\ unmarshalsIntoStruct(ret[g].res.Content)
                /\ result[g].val = [decoded |-> ret[g].res.Content]

\* C13: a transport call to which the HTTP layer returned a response closes
\* the response body exactly once before it ends, on every exit path (read
\* failure, empty body, server fault, envelope decode error, error-payload
\* decode error, sentinel or descriptor error, success, and the panic on a
\* null error payload); when the HTTP layer produced no response the call
\* returns that failure and closes nothing.
C13_BodyClosedOnce ==
    \A g \in Goroutines :
        (pc[g] = "returned" /\ response[g] # None) =>
            IF response[g].kind = "dofail"
            THEN /\ ret[g].closes = 0
                 /\ ret[g].res = None
                 /\ ret[g].err = Errorf("sending request", -1, None)
            ELSE ret[g].closes = 1

\* a response whose body could not be read has been closed once and the read
\* failure returned
C13_Witness ==
    /\ pc["g1"] = "returned"
    /\ response["g1"].kind = "readfail"
    /\ ret["g1"].err = Errorf("reading response body", -1, None)
    /\ ret["g1"].closes = 1

====
